---- MODULE Spec2Model ----
(***************************************************************************)
(* Conjugation engine of the Japanese conjugation trainer                  *)
(* (src/src/app/page.tsx; the same engine is repeated in                   *)
(* src/unnamed/part_001, lines 183-519).                                   *)
(*                                                                         *)
(* Representation of text.  A JavaScript string is a sequence of           *)
(* characters; a character is written as a TLA+ string naming it:          *)
(*   - a hiragana by its romanisation ("ta" is U+305F, "n" is U+3093),     *)
(*     the small kana by an x prefix ("xtsu" is U+3063, "xya" is U+3083);  *)
(*   - a kanji by "kj_" and a gloss ("kj_eat" is U+98DF);                  *)
(*   - a Latin letter by "lat_" and the letter ("lat_p", "lat_P");         *)
(*   - the space by "sp", the ideographic space U+3000 by "isp", and a     *)
(*     punctuation mark by its name ("lparen", "apos", "rsquo" for U+2019, *)
(*     "hellip" for U+2026, "slash", "hyphen", "comma", "period").         *)
(* Distinct characters have distinct names, so equality of two sequences   *)
(* is equality of the two JavaScript strings.                              *)
(***************************************************************************)
EXTENDS Naturals, Sequences, FiniteSets

\* ------------------------------------------------------------------------
\* Bounds of the input enumeration
\* ------------------------------------------------------------------------

\* longest root (the part before the final character) of a generated lexeme
MaxRootLen == 1

\* largest number of scored answers followed (total is capped here)
MaxTotal == 2

\* longest enabledKinds array handed to createQuestion on its own
MaxKindsLen == 2

\* the values of Math.random() followed are 0/RandomSteps, 1/RandomSteps, ...
RandomSteps == 2

\* ------------------------------------------------------------------------
\* JavaScript primitives used by the engine
\* ------------------------------------------------------------------------

\* the value undefined (a missing key of an object map)
Undefined == "undefined"

\* String(undefined), as produced by + and by template literals
UndefinedText ==
    <<"lat_u", "lat_n", "lat_d", "lat_e", "lat_f", "lat_i", "lat_n", "lat_e", "lat_d">>

\* base.slice(0, -1)
DropLast(s) == IF Len(s) = 0 THEN <<>> ELSE SubSeq(s, 1, Len(s) - 1)

\* base.slice(-1): the last character as a string, "" for the empty string
LastOf(s) == IF Len(s) = 0 THEN <<>> ELSE <<s[Len(s)]>>

\* map[key] for a key that is a string: the entry, or undefined
Lookup(map, key) ==
    IF Len(key) = 1 /\ key[1] \in DOMAIN map THEN map[key[1]] ELSE Undefined

\* the text a value contributes to a concatenation or a template literal
Text(v) == IF v = Undefined THEN UndefinedText ELSE <<v>>

\* ------------------------------------------------------------------------
\* Types
\* ------------------------------------------------------------------------

ItemKind == {"verb", "i-adjective", "na-adjective", "noun"}

VerbClass == {"ichidan", "godan", "irregular"}

FormKey ==
    {"present", "past", "negative", "pastNegative", "te", "potential", "adverb",
     "presentCopula", "pastCopula", "negativeCopula", "pastNegativeCopula"}

Register == {"formal", "casual"}

\* ------------------------------------------------------------------------
\* Lexeme catalog
\* ------------------------------------------------------------------------

lexemes ==
    << [kana |-> <<"ta", "be", "ru">>, kanji |-> <<"kj_eat", "be", "ru">>,
        meaning |-> "eat", kind |-> "verb", verbClass |-> "ichidan"],
       [kana |-> <<"mi", "ru">>, kanji |-> <<"kj_see", "ru">>,
        meaning |-> "see", kind |-> "verb", verbClass |-> "ichidan"],
       [kana |-> <<"no", "mu">>, kanji |-> <<"kj_drink", "mu">>,
        meaning |-> "drink", kind |-> "verb", verbClass |-> "godan"],
       [kana |-> <<"ha", "na", "su">>, kanji |-> <<"kj_speak", "su">>,
        meaning |-> "speak", kind |-> "verb", verbClass |-> "godan"],
       [kana |-> <<"ka", "ku">>, kanji |-> <<"kj_write", "ku">>,
        meaning |-> "write", kind |-> "verb", verbClass |-> "godan"],
       [kana |-> <<"i", "ku">>, kanji |-> <<"kj_go", "ku">>,
        meaning |-> "go", kind |-> "verb", verbClass |-> "godan"],
       [kana |-> <<"su", "ru">>, kanji |-> <<"su", "ru">>,
        meaning |-> "do", kind |-> "verb", verbClass |-> "irregular"],
       [kana |-> <<"ku", "ru">>, kanji |-> <<"kj_come", "ru">>,
        meaning |-> "come", kind |-> "verb", verbClass |-> "irregular"],

       [kana |-> <<"o", "o", "ki", "i">>, kanji |-> <<"kj_big", "ki", "i">>,
        meaning |-> "big", kind |-> "i-adjective"],
       [kana |-> <<"chi", "i", "sa", "i">>, kanji |-> <<"kj_small", "sa", "i">>,
        meaning |-> "small", kind |-> "i-adjective"],
       [kana |-> <<"o", "mo", "shi", "ro", "i">>, kanji |-> <<"kj_face", "kj_white", "i">>,
        meaning |-> "interesting", kind |-> "i-adjective"],
       [kana |-> <<"sa", "mu", "i">>, kanji |-> <<"kj_cold", "i">>,
        meaning |-> "cold", kind |-> "i-adjective"],

       [kana |-> <<"shi", "zu", "ka">>, kanji |-> <<"kj_quiet", "ka">>,
        meaning |-> "quiet", kind |-> "na-adjective"],
       [kana |-> <<"be", "n", "ri">>, kanji |-> <<"kj_convenience", "kj_profit">>,
        meaning |-> "convenient", kind |-> "na-adjective"],
       [kana |-> <<"ge", "n", "ki">>, kanji |-> <<"kj_origin", "kj_spirit">>,
        meaning |-> "healthy/energetic", kind |-> "na-adjective"],

       [kana |-> <<"ga", "ku", "se", "i">>, kanji |-> <<"kj_study", "kj_life">>,
        meaning |-> "student", kind |-> "noun"],
       [kana |-> <<"se", "n", "se", "i">>, kanji |-> <<"kj_before", "kj_life">>,
        meaning |-> "teacher", kind |-> "noun"],
       [kana |-> <<"ni", "ho", "n", "ji", "n">>, kanji |-> <<"kj_sun", "kj_book", "kj_person">>,
        meaning |-> "Japanese person", kind |-> "noun"] >>

\* ------------------------------------------------------------------------
\* Form catalog
\* ------------------------------------------------------------------------

\* variant: the adverb listed twice for na-adjectives
formsByKind_adverbTwice ==
    [k \in ItemKind |->
        CASE k = "verb" ->
               <<"present", "past", "negative", "pastNegative", "te", "potential">>
          [] k = "i-adjective" ->
               <<"present", "past", "negative", "pastNegative", "adverb">>
          [] k = "na-adjective" ->
               <<"presentCopula", "pastCopula", "negativeCopula", "adverb", "adverb">>
          [] k = "noun" ->
               <<"presentCopula", "pastCopula", "negativeCopula", "pastNegativeCopula">>]

formsByKind ==
    [k \in ItemKind |->
        CASE k = "verb" ->
               <<"present", "past", "negative", "pastNegative", "te", "potential">>
          [] k = "i-adjective" ->
               <<"present", "past", "negative", "pastNegative", "adverb">>
          [] k = "na-adjective" ->
               <<"presentCopula", "pastCopula", "negativeCopula", "pastNegativeCopula", "adverb">>
          [] k = "noun" ->
               <<"presentCopula", "pastCopula", "negativeCopula", "pastNegativeCopula">>]

formLabels ==
    [\* Present ('do' / 'is')
     present |->
       <<"lat_P", "lat_r", "lat_e", "lat_s", "lat_e", "lat_n", "lat_t", "sp",
         "lparen", "apos", "lat_d", "lat_o", "apos", "sp", "slash", "sp",
         "apos", "lat_i", "lat_s", "apos", "rparen">>,
     \* Past ('did' / 'was')
     past |->
       <<"lat_P", "lat_a", "lat_s", "lat_t", "sp", "lparen", "apos", "lat_d",
         "lat_i", "lat_d", "apos", "sp", "slash", "sp", "apos", "lat_w",
         "lat_a", "lat_s", "apos", "rparen">>,
     \* Negative ('don't' / 'is not')
     negative |->
       <<"lat_N", "lat_e", "lat_g", "lat_a", "lat_t", "lat_i", "lat_v",
         "lat_e", "sp", "lparen", "apos", "lat_d", "lat_o", "lat_n", "rsquo",
         "lat_t", "apos", "sp", "slash", "sp", "apos", "lat_i", "lat_s", "sp",
         "lat_n", "lat_o", "lat_t", "apos", "rparen">>,
     \* Past negative ('didn't' / 'was not')
     pastNegative |->
       <<"lat_P", "lat_a", "lat_s", "lat_t", "sp", "lat_n", "lat_e", "lat_g",
         "lat_a", "lat_t", "lat_i", "lat_v", "lat_e", "sp", "lparen", "apos",
         "lat_d", "lat_i", "lat_d", "lat_n", "rsquo", "lat_t", "apos", "sp",
         "slash", "sp", "apos", "lat_w", "lat_a", "lat_s", "sp", "lat_n",
         "lat_o", "lat_t", "apos", "rparen">>,
     \* Te-form ('and...' / connective form)
     te |->
       <<"lat_T", "lat_e", "hyphen", "lat_f", "lat_o", "lat_r", "lat_m", "sp",
         "lparen", "apos", "lat_a", "lat_n", "lat_d", "hellip", "apos", "sp",
         "slash", "sp", "lat_c", "lat_o", "lat_n", "lat_n", "lat_e", "lat_c",
         "lat_t", "lat_i", "lat_v", "lat_e", "sp", "lat_f", "lat_o", "lat_r",
         "lat_m", "rparen">>,
     \* Potential ('can' / 'is possible to')
     potential |->
       <<"lat_P", "lat_o", "lat_t", "lat_e", "lat_n", "lat_t", "lat_i",
         "lat_a", "lat_l", "sp", "lparen", "apos", "lat_c", "lat_a", "lat_n",
         "apos", "sp", "slash", "sp", "apos", "lat_i", "lat_s", "sp", "lat_p",
         "lat_o", "lat_s", "lat_s", "lat_i", "lat_b", "lat_l", "lat_e", "sp",
         "lat_t", "lat_o", "apos", "rparen">>,
     \* Adverb form ('-ly', e.g. quietly / quickly)
     adverb |->
       <<"lat_A", "lat_d", "lat_v", "lat_e", "lat_r", "lat_b", "sp", "lat_f",
         "lat_o", "lat_r", "lat_m", "sp", "lparen", "apos", "hyphen", "lat_l",
         "lat_y", "apos", "comma", "sp", "lat_e", "period", "lat_g", "period",
         "sp", "lat_q", "lat_u", "lat_i", "lat_e", "lat_t", "lat_l", "lat_y",
         "sp", "slash", "sp", "lat_q", "lat_u", "lat_i", "lat_c", "lat_k",
         "lat_l", "lat_y", "rparen">>,
     \* Copula present ('is / am / are')
     presentCopula |->
       <<"lat_C", "lat_o", "lat_p", "lat_u", "lat_l", "lat_a", "sp", "lat_p",
         "lat_r", "lat_e", "lat_s", "lat_e", "lat_n", "lat_t", "sp", "lparen",
         "apos", "lat_i", "lat_s", "sp", "slash", "sp", "lat_a", "lat_m",
         "sp", "slash", "sp", "lat_a", "lat_r", "lat_e", "apos", "rparen">>,
     \* Copula past ('was / were')
     pastCopula |->
       <<"lat_C", "lat_o", "lat_p", "lat_u", "lat_l", "lat_a", "sp", "lat_p",
         "lat_a", "lat_s", "lat_t", "sp", "lparen", "apos", "lat_w", "lat_a",
         "lat_s", "sp", "slash", "sp", "lat_w", "lat_e", "lat_r", "lat_e",
         "apos", "rparen">>,
     \* Copula negative ('is not / am not / are not')
     negativeCopula |->
       <<"lat_C", "lat_o", "lat_p", "lat_u", "lat_l", "lat_a", "sp", "lat_n",
         "lat_e", "lat_g", "lat_a", "lat_t", "lat_i", "lat_v", "lat_e", "sp",
         "lparen", "apos", "lat_i", "lat_s", "sp", "lat_n", "lat_o", "lat_t",
         "sp", "slash", "sp", "lat_a", "lat_m", "sp", "lat_n", "lat_o",
         "lat_t", "sp", "slash", "sp", "lat_a", "lat_r", "lat_e", "sp",
         "lat_n", "lat_o", "lat_t", "apos", "rparen">>,
     \* Copula past negative ('was not / were not')
     pastNegativeCopula |->
       <<"lat_C", "lat_o", "lat_p", "lat_u", "lat_l", "lat_a", "sp", "lat_p",
         "lat_a", "lat_s", "lat_t", "sp", "lat_n", "lat_e", "lat_g", "lat_a",
         "lat_t", "lat_i", "lat_v", "lat_e", "sp", "lparen", "apos", "lat_w",
         "lat_a", "lat_s", "sp", "lat_n", "lat_o", "lat_t", "sp", "slash",
         "sp", "lat_w", "lat_e", "lat_r", "lat_e", "sp", "lat_n", "lat_o",
         "lat_t", "apos", "rparen">>]

formRegister ==
    [f \in {"present", "past", "negative", "pastNegative", "potential",
            "presentCopula", "pastCopula", "negativeCopula", "pastNegativeCopula"} |->
        <<"lat_f", "lat_o", "lat_r", "lat_m", "lat_a", "lat_l">>]

\* ------------------------------------------------------------------------
\* Display label of a form
\* ------------------------------------------------------------------------

\* the upper-case letter of each lower-case Latin letter
UpperOf ==
    [lat_a |-> "lat_A", lat_b |-> "lat_B", lat_c |-> "lat_C", lat_d |->
     "lat_D", lat_e |-> "lat_E", lat_f |-> "lat_F", lat_g |-> "lat_G", lat_h
     |-> "lat_H", lat_i |-> "lat_I", lat_j |-> "lat_J", lat_k |-> "lat_K",
     lat_l |-> "lat_L", lat_m |-> "lat_M", lat_n |-> "lat_N", lat_o |->
     "lat_O", lat_p |-> "lat_P", lat_q |-> "lat_Q", lat_r |-> "lat_R", lat_s
     |-> "lat_S", lat_t |-> "lat_T", lat_u |-> "lat_U", lat_v |-> "lat_V",
     lat_w |-> "lat_W", lat_x |-> "lat_X", lat_y |-> "lat_Y", lat_z |->
     "lat_Z"]

\* text.toUpperCase(): characters without case (digits, punctuation, kana,
\* kanji) are unchanged
toUpperCase(text) ==
    [i \in 1..Len(text) |->
        IF text[i] \in DOMAIN UpperOf THEN UpperOf[text[i]] ELSE text[i]]

\* text.toLowerCase()
toLowerCase(text) ==
    [i \in 1..Len(text) |->
        IF \E l \in DOMAIN UpperOf : UpperOf[l] = text[i]
        THEN CHOOSE l \in DOMAIN UpperOf : UpperOf[l] = text[i]
        ELSE text[i]]

\* text.charAt(0): the first character as a string, "" for the empty string
charAt0(text) == IF Len(text) = 0 THEN <<>> ELSE <<text[1]>>

\* text.slice(1)
sliceFrom1(text) == IF Len(text) = 0 THEN <<>> ELSE SubSeq(text, 2, Len(text))

titleCase(text) == toUpperCase(charAt0(text)) \o sliceFrom1(text)

\* variant: the label appended as it is
displayConjugationType_keepLabelCase(f) ==
    LET base == formLabels[f]
    IN  IF f \notin DOMAIN formRegister \/ formRegister[f] = <<>> THEN base
        ELSE titleCase(formRegister[f]) \o <<"sp">> \o base

\* formRegister[form] is undefined for a form without a register, and
\* !register holds of undefined and of the empty string
displayConjugationType(f) ==
    LET base == formLabels[f]
    IN  IF f \notin DOMAIN formRegister \/ formRegister[f] = <<>> THEN base
        ELSE titleCase(formRegister[f]) \o <<"sp">>
                 \o toLowerCase(charAt0(base)) \o sliceFrom1(base)

\* ------------------------------------------------------------------------
\* Row tables
\* ------------------------------------------------------------------------

\* variant: the i-row table without the entry of su
iRowMap_noSu ==
    [u |-> "i", ku |-> "ki", gu |-> "gi", tsu |-> "chi",
     nu |-> "ni", bu |-> "bi", mu |-> "mi", ru |-> "ri"]

iRowMap ==
    [u |-> "i", ku |-> "ki", gu |-> "gi", su |-> "shi", tsu |-> "chi",
     nu |-> "ni", bu |-> "bi", mu |-> "mi", ru |-> "ri"]

eRowMap ==
    [u |-> "e", ku |-> "ke", gu |-> "ge", su |-> "se", tsu |-> "te",
     nu |-> "ne", bu |-> "be", mu |-> "me", ru |-> "re"]

\* ------------------------------------------------------------------------
\* Conjugation engine
\* ------------------------------------------------------------------------

\* variant: the godan stem taken from the e-row table
verbMasuStem_eRow(base, cls) ==
    IF cls = "irregular" THEN (IF base = <<"su", "ru">> THEN <<"shi">> ELSE <<"ki">>)
    ELSE IF cls = "ichidan" THEN DropLast(base)
    ELSE DropLast(base) \o Text(Lookup(eRowMap, LastOf(base)))

verbMasuStem(base, cls) ==
    IF cls = "irregular" THEN (IF base = <<"su", "ru">> THEN <<"shi">> ELSE <<"ki">>)
    ELSE IF cls = "ichidan" THEN DropLast(base)
    ELSE DropLast(base) \o Text(Lookup(iRowMap, LastOf(base)))

\* variant: gu treated like ku
verbTe_guAsKu(v, base, cls, useKanji) ==
    IF cls = "ichidan" THEN DropLast(base) \o <<"te">>
    ELSE IF cls = "irregular" THEN
        (IF v.kana = <<"su", "ru">> THEN <<"shi", "te">>
         ELSE IF useKanji THEN <<"kj_come", "te">> ELSE <<"ki", "te">>)
    ELSE LET last == LastOf(base)
             root == DropLast(base)
         IN  IF v.kana = <<"i", "ku">> THEN
                 (IF useKanji THEN <<"kj_go", "xtsu", "te">> ELSE <<"i", "xtsu", "te">>)
             ELSE IF last \in {<<"u">>, <<"tsu">>, <<"ru">>} THEN root \o <<"xtsu", "te">>
             ELSE IF last \in {<<"mu">>, <<"bu">>, <<"nu">>} THEN root \o <<"n", "de">>
             ELSE IF last \in {<<"ku">>, <<"gu">>} THEN root \o <<"i", "te">>
             ELSE root \o <<"shi", "te">>

\* variant: no lexical exception for the go verb
verbTe_noGoException(v, base, cls, useKanji) ==
    IF cls = "ichidan" THEN DropLast(base) \o <<"te">>
    ELSE IF cls = "irregular" THEN
        (IF v.kana = <<"su", "ru">> THEN <<"shi", "te">>
         ELSE IF useKanji THEN <<"kj_come", "te">> ELSE <<"ki", "te">>)
    ELSE LET last == LastOf(base)
             root == DropLast(base)
         IN  IF last \in {<<"u">>, <<"tsu">>, <<"ru">>} THEN root \o <<"xtsu", "te">>
             ELSE IF last \in {<<"mu">>, <<"bu">>, <<"nu">>} THEN root \o <<"n", "de">>
             ELSE IF last = <<"ku">> THEN root \o <<"i", "te">>
             ELSE IF last = <<"gu">> THEN root \o <<"i", "de">>
             ELSE root \o <<"shi", "te">>

\* the branch  if (form === "te") { ... }  of verbConjugate
verbTe(v, base, cls, useKanji) ==
    IF cls = "ichidan" THEN DropLast(base) \o <<"te">>
    ELSE IF cls = "irregular" THEN
        (IF v.kana = <<"su", "ru">> THEN <<"shi", "te">>
         ELSE IF useKanji THEN <<"kj_come", "te">> ELSE <<"ki", "te">>)
    ELSE LET last == LastOf(base)
             root == DropLast(base)
         IN  IF v.kana = <<"i", "ku">> THEN
                 (IF useKanji THEN <<"kj_go", "xtsu", "te">> ELSE <<"i", "xtsu", "te">>)
             ELSE IF last \in {<<"u">>, <<"tsu">>, <<"ru">>} THEN root \o <<"xtsu", "te">>
             ELSE IF last \in {<<"mu">>, <<"bu">>, <<"nu">>} THEN root \o <<"n", "de">>
             ELSE IF last = <<"ku">> THEN root \o <<"i", "te">>
             ELSE IF last = <<"gu">> THEN root \o <<"i", "de">>
             ELSE root \o <<"shi", "te">>

\* variant: the godan potential taken from the i-row table
verbPotential_iRow(v, base, cls, useKanji) ==
    IF cls = "ichidan" THEN DropLast(base) \o <<"ra", "re", "ma", "su">>
    ELSE IF cls = "irregular" THEN
        (IF v.kana = <<"su", "ru">> THEN <<"de", "ki", "ma", "su">>
         ELSE IF useKanji THEN <<"kj_come", "ra", "re", "ma", "su">>
         ELSE <<"ko", "ra", "re", "ma", "su">>)
    ELSE DropLast(base) \o Text(Lookup(iRowMap, LastOf(base))) \o <<"ma", "su">>

\* the branch  if (form === "potential") { ... }  of verbConjugate
verbPotential(v, base, cls, useKanji) ==
    IF cls = "ichidan" THEN DropLast(base) \o <<"ra", "re", "ma", "su">>
    ELSE IF cls = "irregular" THEN
        (IF v.kana = <<"su", "ru">> THEN <<"de", "ki", "ma", "su">>
         ELSE IF useKanji THEN <<"kj_come", "ra", "re", "ma", "su">>
         ELSE <<"ko", "ra", "re", "ma", "su">>)
    ELSE DropLast(base) \o Text(Lookup(eRowMap, LastOf(base))) \o <<"ma", "su">>

verbConjugate(v, form, useKanji) ==
    LET base == IF useKanji THEN v.kanji ELSE v.kana
        cls == v.verbClass
    IN  IF form = "present" THEN verbMasuStem(base, cls) \o <<"ma", "su">>
        ELSE IF form = "past" THEN verbMasuStem(base, cls) \o <<"ma", "shi", "ta">>
        ELSE IF form = "negative" THEN verbMasuStem(base, cls) \o <<"ma", "se", "n">>
        ELSE IF form = "pastNegative" THEN
            verbMasuStem(base, cls) \o <<"ma", "se", "n", "de", "shi", "ta">>
        ELSE IF form = "te" THEN verbTe(v, base, cls, useKanji)
        ELSE IF form = "potential" THEN verbPotential(v, base, cls, useKanji)
        ELSE base

\* variant: the negative built on the base instead of the stem
iAdjConjugate_baseNegative(v, form, useKanji) ==
    LET base == IF useKanji THEN v.kanji ELSE v.kana
        stem == DropLast(base)
    IN  IF form = "present" THEN base \o <<"de", "su">>
        ELSE IF form = "past" THEN stem \o <<"ka", "xtsu", "ta", "de", "su">>
        ELSE IF form = "negative" THEN base \o <<"ku", "na", "i", "de", "su">>
        ELSE IF form = "pastNegative" THEN
            stem \o <<"ku", "na", "ka", "xtsu", "ta", "de", "su">>
        ELSE IF form = "adverb" THEN stem \o <<"ku">>
        ELSE base

iAdjConjugate(v, form, useKanji) ==
    LET base == IF useKanji THEN v.kanji ELSE v.kana
        stem == DropLast(base)
    IN  IF form = "present" THEN base \o <<"de", "su">>
        ELSE IF form = "past" THEN stem \o <<"ka", "xtsu", "ta", "de", "su">>
        ELSE IF form = "negative" THEN stem \o <<"ku", "na", "i", "de", "su">>
        ELSE IF form = "pastNegative" THEN
            stem \o <<"ku", "na", "ka", "xtsu", "ta", "de", "su">>
        ELSE IF form = "adverb" THEN stem \o <<"ku">>
        ELSE base

\* variant: the past copula given the present suffix
naAdjOrNounConjugate_pastAsPresent(v, form, useKanji) ==
    LET base == IF useKanji THEN v.kanji ELSE v.kana
    IN  IF form = "presentCopula" THEN base \o <<"de", "su">>
        ELSE IF form = "pastCopula" THEN base \o <<"de", "su">>
        ELSE IF form = "negativeCopula" THEN base \o <<"ji", "xya", "na", "i", "de", "su">>
        ELSE IF form = "pastNegativeCopula" THEN
            base \o <<"ji", "xya", "na", "ka", "xtsu", "ta", "de", "su">>
        ELSE IF form = "adverb" THEN base \o <<"ni">>
        ELSE base

naAdjOrNounConjugate(v, form, useKanji) ==
    LET base == IF useKanji THEN v.kanji ELSE v.kana
    IN  IF form = "presentCopula" THEN base \o <<"de", "su">>
        ELSE IF form = "pastCopula" THEN base \o <<"de", "shi", "ta">>
        ELSE IF form = "negativeCopula" THEN base \o <<"ji", "xya", "na", "i", "de", "su">>
        ELSE IF form = "pastNegativeCopula" THEN
            base \o <<"ji", "xya", "na", "ka", "xtsu", "ta", "de", "su">>
        ELSE IF form = "adverb" THEN base \o <<"ni">>
        ELSE base

\* variant: nouns not routed to the rule set they share with na-adjectives
conjugate_noNounRule(lexeme, form, useKanji) ==
    IF lexeme.kind = "verb" THEN verbConjugate(lexeme, form, useKanji)
    ELSE IF lexeme.kind = "i-adjective" THEN iAdjConjugate(lexeme, form, useKanji)
    ELSE IF lexeme.kind = "na-adjective" THEN naAdjOrNounConjugate(lexeme, form, useKanji)
    ELSE <<>>

conjugate(lexeme, form, useKanji) ==
    IF lexeme.kind = "verb" THEN verbConjugate(lexeme, form, useKanji)
    ELSE IF lexeme.kind = "i-adjective" THEN iAdjConjugate(lexeme, form, useKanji)
    ELSE naAdjOrNounConjugate(lexeme, form, useKanji)

\* ------------------------------------------------------------------------
\* Inputs of the engine: the catalog, and well-formed lexemes outside it
\* ------------------------------------------------------------------------

CatalogLexemes == {lexemes[i] : i \in DOMAIN lexemes}

\* the nine characters a godan dictionary form can end in
GodanFinals == {"u", "ku", "gu", "su", "tsu", "nu", "bu", "mu", "ru"}

RootChars == {"a", "ka"}

Roots == UNION {[1..n -> RootChars] : n \in 1..MaxRootLen}

GeneratedLexemes ==
    {[kana |-> r \o <<f>>, kanji |-> <<"kj_root", f>>, meaning |-> "generated",
      kind |-> "verb", verbClass |-> "godan"] : r \in Roots, f \in GodanFinals}
    \cup {[kana |-> r \o <<"ru">>, kanji |-> <<"kj_root", "ru">>, meaning |-> "generated",
           kind |-> "verb", verbClass |-> "ichidan"] : r \in Roots}
    \cup {[kana |-> r \o <<"i">>, kanji |-> <<"kj_root", "i">>, meaning |-> "generated",
           kind |-> "i-adjective"] : r \in Roots}
    \cup {[kana |-> r, kanji |-> <<"kj_root">>, meaning |-> "generated", kind |-> k] :
             r \in Roots, k \in {"na-adjective", "noun"}}

InputLexemes == CatalogLexemes \cup GeneratedLexemes

\* ------------------------------------------------------------------------
\* Answer normalisation (wanakana, imported at page.tsx:4) and trimming
\* ------------------------------------------------------------------------

\* the white space String.prototype.trim removes, among the characters used
Whitespace == {"sp", "isp"}

\* answer.trim()
trim(text) ==
    LET keep == {i \in 1..Len(text) : text[i] \notin Whitespace}
    IN  IF keep = {} THEN <<>>
        ELSE SubSeq(text, CHOOSE i \in keep : \A j \in keep : i <= j,
                          CHOOSE i \in keep : \A j \in keep : j <= i)

\* the romaji syllables of wanakana's romaji-to-kana table that the inputs
\* followed here are written with, each with its hiragana
RomajiSyllables ==
    { <<<<"lat_a">>, "a">>, <<<<"lat_i">>, "i">>, <<<<"lat_u">>, "u">>,
      <<<<"lat_e">>, "e">>, <<<<"lat_o">>, "o">>,
      <<<<"lat_k", "lat_a">>, "ka">>, <<<<"lat_k", "lat_i">>, "ki">>,
      <<<<"lat_k", "lat_u">>, "ku">>,
      <<<<"lat_s", "lat_u">>, "su">>, <<<<"lat_s", "lat_e">>, "se">>,
      <<<<"lat_s", "lat_h", "lat_i">>, "shi">>,
      <<<<"lat_t", "lat_a">>, "ta">>, <<<<"lat_t", "lat_e">>, "te">>,
      <<<<"lat_d", "lat_e">>, "de">>, <<<<"lat_b", "lat_e">>, "be">>,
      <<<<"lat_m", "lat_a">>, "ma">>, <<<<"lat_m", "lat_i">>, "mi">>,
      <<<<"lat_m", "lat_u">>, "mu">>,
      <<<<"lat_r", "lat_a">>, "ra">>, <<<<"lat_r", "lat_e">>, "re">>,
      <<<<"lat_r", "lat_u">>, "ru">> }

RECURSIVE toKana(_)
\* wanakana.toKana(text): the longest romaji syllable at the front is
\* replaced by its kana; a character that starts no syllable (a kana, a
\* kanji, a space) is kept
toKana(text) ==
    IF text = <<>> THEN <<>>
    ELSE LET matches == {p \in RomajiSyllables :
                            /\ Len(p[1]) <= Len(text)
                            /\ SubSeq(text, 1, Len(p[1])) = p[1]}
         IN  IF matches = {} THEN <<text[1]>> \o toKana(Tail(text))
             ELSE LET m == CHOOSE p \in matches :
                              \A q \in matches : Len(q[1]) <= Len(p[1])
                  IN  <<m[2]>> \o toKana(SubSeq(text, Len(m[1]) + 1, Len(text)))

\* wanakana.toHiragana(text, { IMEMode: true }): on lower-case romaji that
\* ends in a complete syllable, on hiragana, kanji and spaces it converts as
\* toKana does (it differs on katakana, upper case and a pending consonant)
toHiragana(text) == toKana(text)

\* variant: only the phonetic expectation is compared
isCorrect_kanaOnly(raw, expectedKana, expectedKanji) ==
    LET normalizedInput == toKana(raw)
    IN  normalizedInput = toKana(expectedKana)

\* the constant isCorrect of check
isCorrect(raw, expectedKana, expectedKanji) ==
    LET normalizedInput == toKana(raw)
    IN  \/ normalizedInput = toKana(expectedKana)
        \/ normalizedInput = toKana(expectedKanji)

\* ------------------------------------------------------------------------
\* Question sampler
\* ------------------------------------------------------------------------

\* arr.includes(x), as a set of the members
Members(arr) == {arr[i] : i \in DOMAIN arr}

\* the values Math.random() returns, as numerators over RandomSteps: they
\* are in [0, 1)
RandomDraws == 0..(RandomSteps - 1)

\* randomItem(arr) when Math.random() returns n / RandomSteps:
\* arr[Math.floor((n / RandomSteps) * arr.length)], undefined for an empty
\* array (indices count from 1 here)
randomItem(arr, n) ==
    IF Len(arr) = 0 THEN Undefined ELSE arr[((n * Len(arr)) \div RandomSteps) + 1]

\* variant: the sampler without kind filtering (page.tsx:195-199)
createQuestion_unfiltered(kinds, n1, n2) ==
    LET item == randomItem(lexemes, n1)
        f == randomItem(formsByKind[item.kind], n2)
    IN  [item |-> item, form |-> f]

\* variant: the form drawn from the forms of verbs
createQuestion_verbForms(kinds, n1, n2) ==
    LET pool == SelectSeq(lexemes, LAMBDA l : l.kind \in Members(kinds))
        item == randomItem(IF Len(pool) > 0 THEN pool ELSE lexemes, n1)
        f == randomItem(formsByKind["verb"], n2)
    IN  [item |-> item, form |-> f]

\* createQuestion(enabledKinds) when the two calls of Math.random() return
\* n1 / RandomSteps and n2 / RandomSteps
createQuestion(kinds, n1, n2) ==
    LET pool == SelectSeq(lexemes, LAMBDA l : l.kind \in Members(kinds))
        item == randomItem(IF Len(pool) > 0 THEN pool ELSE lexemes, n1)
        f == randomItem(formsByKind[item.kind], n2)
    IN  [item |-> item, form |-> f]

allKinds == <<"verb", "i-adjective", "na-adjective", "noun">>

\* feedback is null while no verdict is shown
Null == [null |-> TRUE]

\* ------------------------------------------------------------------------
\* One call of conjugate
\* ------------------------------------------------------------------------

VARIABLES
    lexeme,     \* argument: the lexeme
    form,       \* argument: the form
    useKanji,   \* argument: the script (FALSE phonetic, TRUE orthographic)
    outcome,    \* "pending" before the call; "returned" or "threw" after it
    result      \* the returned string

\* the state of the practice page (Home, part_001:358-367)
VARIABLES
    enabledKinds,       \* array of the kinds practised
    question,           \* [item, form]: the current question
    answer,             \* text of the input field
    correct,            \* answers judged correct
    total,              \* answers judged
    streak,             \* correct answers in a row
    feedback,           \* Null, or [ok]: the verdict shown
    jpInputMode,        \* the input field converts to hiragana while typing
    effectPending,      \* the effect of part_001:369-371 is scheduled
    scoredSinceReplace, \* history: answers judged since question was last set
    judgedInput         \* history: the normalized input the feedback was given for

conjVars == <<lexeme, form, useKanji, outcome, result>>

pageVars ==
    <<enabledKinds, question, answer, correct, total, streak, feedback,
      jpInputMode, effectPending, scoredSinceReplace, judgedInput>>

vars == <<conjVars, pageVars>>

\* no call of conjugate is followed
ConjIdle ==
    /\ lexeme = lexemes[1]
    /\ form = "present"
    /\ useKanji = FALSE
    /\ outcome = "pending"
    /\ result = <<>>

\* the state of Home after its first render: the useState initial values,
\* and the effect scheduled by the mount
Init ==
    /\ enabledKinds = allKinds
    /\ question = [item |-> lexemes[1], form |-> "present"]
    /\ answer = <<>>
    /\ correct = 0
    /\ total = 0
    /\ streak = 0
    /\ feedback = Null
    /\ jpInputMode = TRUE
    /\ effectPending = TRUE
    /\ scoredSinceReplace = 0
    /\ judgedInput = <<>>
    /\ ConjIdle

ConjInit ==
    /\ lexeme \in InputLexemes
    /\ form \in FormKey
    /\ useKanji \in BOOLEAN
    /\ outcome = "pending"
    /\ result = <<>>
    /\ enabledKinds = allKinds
    /\ question = [item |-> lexemes[1], form |-> "present"]
    /\ answer = <<>>
    /\ correct = 0
    /\ total = 0
    /\ streak = 0
    /\ feedback = Null
    /\ jpInputMode = TRUE
    /\ effectPending = TRUE
    /\ scoredSinceReplace = 0
    /\ judgedInput = <<>>

\* conjugate has no throw statement and calls only String.prototype.slice,
\* Array.prototype.includes, property reads on given objects and
\* concatenation, none of which throws on a lexeme: it always returns
CallConjugate ==
    /\ outcome = "pending"
    /\ result' = conjugate(lexeme, form, useKanji)
    /\ outcome' = "returned"
    /\ UNCHANGED <<lexeme, form, useKanji>>
    /\ UNCHANGED pageVars

ConjNext == CallConjugate

ConjSpec == ConjInit /\ [][ConjNext]_vars

\* ------------------------------------------------------------------------
\* The practice page with kind filtering (Home, part_001:358-518)
\* ------------------------------------------------------------------------

\* values rendered from the state (part_001:373-376)
expectedKana == conjugate(question.item, question.form, FALSE)

expectedKanji == conjugate(question.item, question.form, TRUE)

conjugationTypeLabel == displayConjugationType(question.form)

\* the texts followed as values of the input field
TypedValues ==
    { <<"sp">>,
      <<"lat_t", "lat_a", "lat_b", "lat_e", "lat_m", "lat_a", "lat_s", "lat_u">> }

\* useEffect(() => setQuestion(createQuestion(enabledKinds)), [enabledKinds]):
\* runs after the mount and after every render that changed enabledKinds
ResampleEffect ==
    /\ effectPending
    /\ (\E n1, n2 \in RandomDraws : question' = createQuestion(enabledKinds, n1, n2))
    /\ effectPending' = FALSE
    /\ scoredSinceReplace' = 0
    /\ UNCHANGED <<enabledKinds, answer, correct, total, streak, feedback, jpInputMode,
                   judgedInput>>
    /\ UNCHANGED conjVars

\* variant: the streak is reset when advancing
nextQuestion_resetStreak ==
    /\ (\E n1, n2 \in RandomDraws : question' = createQuestion(enabledKinds, n1, n2))
    /\ answer' = <<>>
    /\ feedback' = Null
    /\ streak' = 0
    /\ scoredSinceReplace' = 0
    /\ judgedInput' = <<>>
    /\ UNCHANGED <<enabledKinds, correct, total, jpInputMode, effectPending>>

\* variant: the next question drawn from the whole catalog
nextQuestion_unfiltered ==
    /\ (\E n1, n2 \in RandomDraws : question' = createQuestion_unfiltered(enabledKinds, n1, n2))
    /\ answer' = <<>>
    /\ feedback' = Null
    /\ scoredSinceReplace' = 0
    /\ judgedInput' = <<>>
    /\ UNCHANGED <<enabledKinds, correct, total, streak, jpInputMode, effectPending>>

nextQuestion ==
    /\ (\E n1, n2 \in RandomDraws : question' = createQuestion(enabledKinds, n1, n2))
    /\ answer' = <<>>
    /\ feedback' = Null
    /\ scoredSinceReplace' = 0
    /\ judgedInput' = <<>>
    /\ UNCHANGED <<enabledKinds, correct, total, streak, jpInputMode, effectPending>>

\* variant: check of the verb-only page (part_001:94-109): no feedback guard
check_noFeedbackGuard ==
    LET raw == trim(answer)
    IN  IF raw = <<>> THEN UNCHANGED pageVars
        ELSE LET ok == isCorrect(raw, expectedKana, expectedKanji)
             IN  /\ total < MaxTotal
                 /\ total' = total + 1
                 /\ feedback' = [ok |-> ok]
                 /\ IF ok THEN correct' = correct + 1 /\ streak' = streak + 1
                          ELSE streak' = 0 /\ correct' = correct
                 /\ scoredSinceReplace' = scoredSinceReplace + 1
                 /\ judgedInput' = toKana(raw)
                 /\ UNCHANGED <<enabledKinds, question, answer, jpInputMode, effectPending>>

\* variant: a blank answer is judged
check_scoresBlank ==
    LET raw == trim(answer)
    IN  IF feedback # Null THEN UNCHANGED pageVars
        ELSE LET ok == isCorrect(raw, expectedKana, expectedKanji)
             IN  /\ total < MaxTotal
                 /\ total' = total + 1
                 /\ feedback' = [ok |-> ok]
                 /\ IF ok THEN correct' = correct + 1 /\ streak' = streak + 1
                          ELSE streak' = 0 /\ correct' = correct
                 /\ scoredSinceReplace' = scoredSinceReplace + 1
                 /\ judgedInput' = toKana(raw)
                 /\ UNCHANGED <<enabledKinds, question, answer, jpInputMode, effectPending>>

\* variant: a wrong answer leaves the streak
check_keepStreak ==
    LET raw == trim(answer)
    IN  IF raw = <<>> \/ feedback # Null THEN UNCHANGED pageVars
        ELSE LET ok == isCorrect(raw, expectedKana, expectedKanji)
             IN  /\ total < MaxTotal
                 /\ total' = total + 1
                 /\ feedback' = [ok |-> ok]
                 /\ IF ok THEN correct' = correct + 1 /\ streak' = streak + 1
                          ELSE streak' = streak + 1 /\ correct' = correct
                 /\ scoredSinceReplace' = scoredSinceReplace + 1
                 /\ judgedInput' = toKana(raw)
                 /\ UNCHANGED <<enabledKinds, question, answer, jpInputMode, effectPending>>

\* total is followed up to MaxTotal
check ==
    LET raw == trim(answer)
    IN  IF raw = <<>> \/ feedback # Null THEN UNCHANGED pageVars
        ELSE LET ok == isCorrect(raw, expectedKana, expectedKanji)
             IN  /\ total < MaxTotal
                 /\ total' = total + 1
                 /\ feedback' = [ok |-> ok]
                 /\ IF ok THEN correct' = correct + 1 /\ streak' = streak + 1
                          ELSE streak' = 0 /\ correct' = correct
                 /\ scoredSinceReplace' = scoredSinceReplace + 1
                 /\ judgedInput' = toKana(raw)
                 /\ UNCHANGED <<enabledKinds, question, answer, jpInputMode, effectPending>>

\* variant: Enter of the verb-only page (part_001:159): always check
handleEnter_alwaysCheck == check_noFeedbackGuard

handleEnter == IF feedback # Null THEN nextQuestion ELSE check

\* React runs a scheduled effect before it handles the next event, so no
\* handler runs while the effect is pending

\* onChange of the input field
ChangeAnswer(value) ==
    /\ ~effectPending
    /\ answer' = IF jpInputMode THEN toHiragana(value) ELSE value
    /\ UNCHANGED <<enabledKinds, question, correct, total, streak, feedback, jpInputMode,
                   effectPending, scoredSinceReplace, judgedInput>>
    /\ UNCHANGED conjVars

\* onClick of the JP Input button
ClickJpInput ==
    /\ ~effectPending
    /\ jpInputMode' = ~jpInputMode
    /\ UNCHANGED <<enabledKinds, question, answer, correct, total, streak, feedback,
                   effectPending, scoredSinceReplace, judgedInput>>
    /\ UNCHANGED conjVars

\* variant: the last enabled kind can be switched off
ClickKind_allowEmpty(k) ==
    /\ ~effectPending
    /\ LET on == k \in Members(enabledKinds)
           next == IF on THEN SelectSeq(enabledKinds, LAMBDA x : x # k)
                         ELSE Append(enabledKinds, k)
       IN  /\ enabledKinds' = next
           /\ effectPending' = TRUE
           /\ UNCHANGED <<question, answer, correct, total, streak, feedback,
                          jpInputMode, scoredSinceReplace, judgedInput>>
    /\ UNCHANGED conjVars

\* onClick of the button of kind k
ClickKind(k) ==
    /\ ~effectPending
    /\ LET on == k \in Members(enabledKinds)
           next == IF on THEN SelectSeq(enabledKinds, LAMBDA x : x # k)
                         ELSE Append(enabledKinds, k)
       IN  IF Len(next) > 0
           THEN /\ enabledKinds' = next
                /\ effectPending' = TRUE
                /\ UNCHANGED <<question, answer, correct, total, streak, feedback,
                               jpInputMode, scoredSinceReplace, judgedInput>>
           ELSE UNCHANGED pageVars
    /\ UNCHANGED conjVars

\* onClick of Check, rendered while no feedback is shown
ClickCheck ==
    /\ ~effectPending
    /\ feedback = Null
    /\ check
    /\ UNCHANGED conjVars

\* onClick of Next, rendered while feedback is shown
ClickNext ==
    /\ ~effectPending
    /\ feedback # Null
    /\ nextQuestion
    /\ UNCHANGED conjVars

\* onClick of Skip
ClickSkip ==
    /\ ~effectPending
    /\ nextQuestion
    /\ UNCHANGED conjVars

\* onKeyDown of the input field with the key Enter
PressEnter ==
    /\ ~effectPending
    /\ handleEnter
    /\ UNCHANGED conjVars

Next ==
    \/ ResampleEffect
    \/ \E value \in TypedValues : ChangeAnswer(value)
    \/ ClickJpInput
    \/ \E k \in ItemKind : ClickKind(k)
    \/ ClickCheck
    \/ ClickNext
    \/ ClickSkip
    \/ PressEnter

Spec == Init /\ [][Next]_vars

\* ------------------------------------------------------------------------
\* One call of createQuestion
\* ------------------------------------------------------------------------

\* the arrays of kinds handed to createQuestion: any order, repetitions and
\* the empty array included
KindArrays == UNION {[1..n -> ItemKind] : n \in 0..MaxKindsLen}

SampleInit ==
    /\ enabledKinds \in KindArrays
    /\ question = [item |-> lexemes[1], form |-> "present"]
    /\ answer = <<>>
    /\ correct = 0
    /\ total = 0
    /\ streak = 0
    /\ feedback = Null
    /\ jpInputMode = TRUE
    /\ effectPending = TRUE
    /\ scoredSinceReplace = 0
    /\ judgedInput = <<>>
    /\ ConjIdle

CallCreateQuestion ==
    /\ outcome = "pending"
    /\ \E n1, n2 \in RandomDraws : question' = createQuestion(enabledKinds, n1, n2)
    /\ outcome' = "returned"
    /\ UNCHANGED <<lexeme, form, useKanji, result>>
    /\ UNCHANGED <<enabledKinds, answer, correct, total, streak, feedback, jpInputMode,
                   effectPending, scoredSinceReplace, judgedInput>>

SampleNext == CallCreateQuestion

SampleSpec == SampleInit /\ [][SampleNext]_vars

\* ------------------------------------------------------------------------
\* One check of an answer
\* ------------------------------------------------------------------------

\* every question the sampler can set
AllQuestions ==
    UNION {{[item |-> l, form |-> f] : f \in Members(formsByKind[l.kind])} :
              l \in CatalogLexemes}

\* the answers followed for a question: blank ones, both spellings of the
\* expected form, one padded with white space, and two fixed texts
AnswerChoices(q) ==
    LET kana == conjugate(q.item, q.form, FALSE)
        kanji == conjugate(q.item, q.form, TRUE)
    IN  { <<>>, <<"sp">>, <<"isp", "sp">>, kana, kanji,
          <<"sp">> \o kanji \o <<"isp">>,
          <<"ta", "be", "ma", "su">>,
          <<"lat_t", "lat_a", "lat_b", "lat_e", "lat_m", "lat_a", "lat_s", "lat_u">> }

\* the page showing any question, with any of the answers typed and no
\* feedback
CheckInit ==
    /\ enabledKinds = allKinds
    /\ question \in AllQuestions
    /\ answer \in AnswerChoices(question)
    /\ correct = 0
    /\ total = 0
    /\ streak = 0
    /\ feedback = Null
    /\ jpInputMode = TRUE
    /\ effectPending = FALSE
    /\ scoredSinceReplace = 0
    /\ judgedInput = <<>>
    /\ ConjIdle

CheckNext == ClickCheck

CheckSpec == CheckInit /\ [][CheckNext]_vars

\* ------------------------------------------------------------------------
\* Properties of conjugate
\* ------------------------------------------------------------------------

\* the call has returned
Returned == outcome = "returned"

\* form is one of the forms the catalog lists for the lexeme's kind
Applicable ==
    \E i \in DOMAIN formsByKind[lexeme.kind] : formsByKind[lexeme.kind][i] = form

\* the string of the lexeme in the script of the call
Base == IF useKanji THEN lexeme.kanji ELSE lexeme.kana

\* Base without its last character
Root == SubSeq(Base, 1, Len(Base) - 1)

\* the last character of Base
Final == Base[Len(Base)]

IsVerb(cls) == lexeme.kind = "verb" /\ lexeme.verbClass = cls

\* C1: for every lexeme of the catalog, every form listed for its kind and
\* both scripts, conjugate returns (it does not throw) and the string it
\* returns is not empty.
C1_Total ==
    (outcome # "pending" /\ lexeme \in CatalogLexemes /\ Applicable)
        => (Returned /\ Len(result) > 0)

C1_Witness ==
    /\ Returned /\ lexeme = lexemes[18] /\ form = "pastNegativeCopula" /\ useKanji
    /\ Len(result) > 0

\* C2: conjugate called with a form that is not listed for the lexeme's kind
\* fails with an error; it does not return a string.
C2_InvalidFormFails ==
    (outcome # "pending" /\ lexeme \in CatalogLexemes /\ ~Applicable) => outcome = "threw"

\* the masu stem as the claim C3 states it
C3_Stem ==
    IF lexeme.verbClass = "ichidan" THEN Root
    ELSE IF lexeme.verbClass = "godan" THEN Root \o <<iRowMap[Final]>>
    ELSE IF lexeme.meaning = "do" THEN <<"shi">> ELSE <<"ki">>

\* C3: for a verb, in either script, present, past, negative and past
\* negative are the masu stem followed by masu, mashita, masen and
\* masendeshita; the stem is the base without its last character (ichidan),
\* that plus the i-row counterpart of the last character (godan), or the
\* fixed stem shi (do) / ki (come) in both scripts (irregular).
C3_MasuForms ==
    (Returned /\ lexeme.kind = "verb") =>
        /\ form = "present" => result = C3_Stem \o <<"ma", "su">>
        /\ form = "past" => result = C3_Stem \o <<"ma", "shi", "ta">>
        /\ form = "negative" => result = C3_Stem \o <<"ma", "se", "n">>
        /\ form = "pastNegative" => result = C3_Stem \o <<"ma", "se", "n", "de", "shi", "ta">>

C3_Witness ==
    /\ Returned /\ IsVerb("godan") /\ lexeme.meaning = "speak" /\ useKanji
    /\ form = "pastNegative"
    /\ result = <<"kj_speak", "shi", "ma", "se", "n", "de", "shi", "ta">>

\* C4: the te-form of a godan verb other than the go verb is the base without
\* its last character plus a suffix chosen by that last character alone
\* (u, tsu, ru: tte; mu, bu, nu: nde; ku: ite; gu: ide; any other: shite);
\* the te-form of an ichidan verb is the base without its last character
\* plus te.
C4_TeForm ==
    (Returned /\ form = "te" /\ lexeme.kind = "verb") =>
        /\ lexeme.verbClass = "ichidan" => result = Root \o <<"te">>
        /\ (lexeme.verbClass = "godan" /\ lexeme.kana # <<"i", "ku">>) =>
              result = Root \o
                  (CASE Final \in {"u", "tsu", "ru"} -> <<"xtsu", "te">>
                     [] Final \in {"mu", "bu", "nu"} -> <<"n", "de">>
                     [] Final = "ku" -> <<"i", "te">>
                     [] Final = "gu" -> <<"i", "de">>
                     [] OTHER -> <<"shi", "te">>)

C4_Witness ==
    /\ Returned /\ form = "te" /\ IsVerb("godan") /\ ~useKanji
    /\ lexeme.kana = <<"ka", "gu">>
    /\ result = <<"ka", "i", "de">>

\* C5: the te-form of the go verb (kana i-ku) is i-tte in the phonetic script
\* and (kanji go)-tte in the orthographic script, never the row-predicted
\* i-i-te / (kanji go)-i-te; every other godan lexeme ending in ku takes the
\* regular suffix ite.
C5_GoException ==
    (Returned /\ form = "te" /\ IsVerb("godan") /\ Final = "ku") =>
        IF lexeme.kana = <<"i", "ku">>
        THEN /\ result = (IF useKanji THEN <<"kj_go", "xtsu", "te">> ELSE <<"i", "xtsu", "te">>)
             /\ result # Root \o <<"i", "te">>
        ELSE result = Root \o <<"i", "te">>

C5_Witness ==
    /\ Returned /\ form = "te" /\ lexeme = lexemes[6] /\ useKanji
    /\ result = <<"kj_go", "xtsu", "te">>

\* C6: the potential form is the base without its last character plus
\* rare-masu (ichidan), the base without its last character plus the e-row
\* counterpart of the last character plus masu (godan), or a fixed form
\* (irregular): dekimasu for do in both scripts, koraremasu / (kanji
\* come)-raremasu for come; the irregular te-forms are shite for do and
\* kite / (kanji come)-te for come.
C6_Potential ==
    (Returned /\ lexeme.kind = "verb") =>
        /\ (form = "potential" /\ lexeme.verbClass = "ichidan") =>
              result = Root \o <<"ra", "re", "ma", "su">>
        /\ (form = "potential" /\ lexeme.verbClass = "godan") =>
              result = Root \o <<eRowMap[Final]>> \o <<"ma", "su">>
        /\ (form = "potential" /\ lexeme.verbClass = "irregular") =>
              result = (IF lexeme.meaning = "do" THEN <<"de", "ki", "ma", "su">>
                        ELSE IF useKanji THEN <<"kj_come", "ra", "re", "ma", "su">>
                        ELSE <<"ko", "ra", "re", "ma", "su">>)
        /\ (form = "te" /\ lexeme.verbClass = "irregular") =>
              result = (IF lexeme.meaning = "do" THEN <<"shi", "te">>
                        ELSE IF useKanji THEN <<"kj_come", "te">>
                        ELSE <<"ki", "te">>)

C6_Witness ==
    /\ Returned /\ form = "potential" /\ IsVerb("irregular") /\ lexeme.meaning = "do"
    /\ ~useKanji
    /\ result = <<"de", "ki", "ma", "su">>

\* C7: for an i-adjective, in either script, the last character of the base
\* is i and, with stem the base without it: present = base + desu, past =
\* stem + kattadesu, negative = stem + kunaidesu, past negative = stem +
\* kunakattadesu, adverb = stem + ku.
C7_IAdjective ==
    (Returned /\ lexeme.kind = "i-adjective") =>
        /\ Final = "i"
        /\ form = "present" => result = Base \o <<"de", "su">>
        /\ form = "past" => result = Root \o <<"ka", "xtsu", "ta", "de", "su">>
        /\ form = "negative" => result = Root \o <<"ku", "na", "i", "de", "su">>
        /\ form = "pastNegative" =>
              result = Root \o <<"ku", "na", "ka", "xtsu", "ta", "de", "su">>
        /\ form = "adverb" => result = Root \o <<"ku">>

C7_Witness ==
    /\ Returned /\ lexeme.kind = "i-adjective" /\ lexeme.meaning = "big" /\ ~useKanji
    /\ form = "past"
    /\ result = <<"o", "o", "ki", "ka", "xtsu", "ta", "de", "su">>

\* C8: na-adjectives and nouns share one rule set that appends to the
\* unmodified base of the selected script: desu, deshita, janaidesu,
\* janakattadesu for the four copula forms; the adverb, base + ni, is listed
\* for na-adjectives and is not listed for nouns.
C8_Copula ==
    (Returned /\ lexeme.kind \in {"na-adjective", "noun"}) =>
        /\ form = "presentCopula" => result = Base \o <<"de", "su">>
        /\ form = "pastCopula" => result = Base \o <<"de", "shi", "ta">>
        /\ form = "negativeCopula" => result = Base \o <<"ji", "xya", "na", "i", "de", "su">>
        /\ form = "pastNegativeCopula" =>
              result = Base \o <<"ji", "xya", "na", "ka", "xtsu", "ta", "de", "su">>
        /\ (form = "adverb" /\ lexeme.kind = "na-adjective") =>
              (Applicable /\ result = Base \o <<"ni">>)
        /\ (form = "adverb" /\ lexeme.kind = "noun") => ~Applicable

C8_Witness ==
    /\ Returned /\ lexeme.kind = "na-adjective" /\ lexeme.meaning = "quiet" /\ ~useKanji
    /\ form = "negativeCopula"
    /\ result = <<"shi", "zu", "ka", "ji", "xya", "na", "i", "de", "su">>

\* the text of undefined occurs in s
HasUndefinedText(s) ==
    \E i \in 1..Len(s) :
        i + Len(UndefinedText) - 1 <= Len(s)
        /\ SubSeq(s, i, i + Len(UndefinedText) - 1) = UndefinedText

\* C9: the i-row table and the e-row table have exactly the nine keys
\* u ku gu su tsu nu bu mu ru; the last character of every godan lexeme of
\* the catalog, in both spellings, is a key of both; and no result of an
\* applicable form of a catalog lexeme contains the text of a missing entry.
C9_RowTables ==
    /\ DOMAIN iRowMap = {"u", "ku", "gu", "su", "tsu", "nu", "bu", "mu", "ru"}
    /\ DOMAIN eRowMap = {"u", "ku", "gu", "su", "tsu", "nu", "bu", "mu", "ru"}
    /\ (lexeme \in CatalogLexemes /\ IsVerb("godan")) =>
          \A s \in {lexeme.kana, lexeme.kanji} :
              /\ Len(s) > 0
              /\ s[Len(s)] \in DOMAIN iRowMap
              /\ s[Len(s)] \in DOMAIN eRowMap
    /\ (Returned /\ lexeme \in CatalogLexemes /\ Applicable) => ~HasUndefinedText(result)

C9_Witness ==
    /\ Returned /\ IsVerb("godan") /\ lexeme.meaning = "drink" /\ useKanji
    /\ form = "potential"
    /\ result = <<"kj_drink", "me", "ma", "su">>

\* the number of forms the catalog lists per kind, as the claim C10 states it
C10_Count ==
    [k \in ItemKind |->
        IF k = "verb" THEN 6 ELSE IF k = "noun" THEN 4 ELSE 5]

\* C10: the form catalog gives every kind a non-empty, duplicate-free list of
\* forms: 6 for verbs, 5 for i-adjectives, 5 for na-adjectives, 4 for nouns;
\* every listed form is one of the 11 form keys and has a label.
C10_FormCatalog ==
    /\ DOMAIN formsByKind = ItemKind
    /\ Cardinality(FormKey) = 11
    /\ LET fs == formsByKind[lexeme.kind]
       IN  /\ Len(fs) = C10_Count[lexeme.kind]
           /\ Len(fs) > 0
           /\ \A i, j \in DOMAIN fs : fs[i] = fs[j] => i = j
           /\ \A i \in DOMAIN fs : fs[i] \in FormKey /\ fs[i] \in DOMAIN formLabels

C10_Witness ==
    /\ Returned /\ lexeme.kind = "noun" /\ lexeme \in CatalogLexemes
    /\ form = formsByKind["noun"][4]
    /\ Applicable

\* ------------------------------------------------------------------------
\* Properties of the sampler, the matcher and the display label
\* ------------------------------------------------------------------------

\* some lexeme of the catalog has a kind of enabledKinds
PoolNonEmpty == \E l \in CatalogLexemes : l.kind \in Members(enabledKinds)

\* C11: createQuestion(enabledKinds) returns a lexeme of the catalog and a
\* form listed for that lexeme's kind; when some catalog lexeme has a kind
\* of enabledKinds the lexeme's kind is one of enabledKinds, and when none
\* has (enabledKinds empty included) the lexeme is the one the draw picks in
\* the whole catalog.
C11_Sampler ==
    Returned =>
        /\ question.item \in CatalogLexemes
        /\ question.form \in Members(formsByKind[question.item.kind])
        /\ PoolNonEmpty => question.item.kind \in Members(enabledKinds)
        /\ ~PoolNonEmpty =>
              \E n \in RandomDraws :
                  question.item = lexemes[((n * Len(lexemes)) \div RandomSteps) + 1]

C11_Witness ==
    /\ Returned /\ enabledKinds = <<"noun", "noun">>
    /\ question.item.meaning = "teacher" /\ question.form = "negativeCopula"

\* the answer of the state, normalized as check normalizes it
NormalizedAnswer == toKana(trim(answer))

\* C12: an answer is judged correct exactly when its normalized form equals
\* the normalized phonetic expectation or the normalized orthographic
\* expectation; an answer equal to either spelling of the expected form is
\* judged correct, also when the two spellings differ.
C12_Matcher ==
    feedback # Null =>
        /\ feedback.ok <=> (\/ NormalizedAnswer = toKana(expectedKana)
                            \/ NormalizedAnswer = toKana(expectedKanji))
        /\ answer \in {expectedKana, expectedKanji} => feedback.ok

C12_Witness ==
    /\ feedback = [ok |-> TRUE]
    /\ answer = expectedKanji /\ expectedKanji # expectedKana
    /\ question.item.meaning = "interesting" /\ question.form = "adverb"

\* a check of the answer: a click on Check, or Enter while no feedback is
\* shown
CheckStep == ClickCheck \/ (feedback = Null /\ PressEnter)

\* C13: a check of an empty or white-space-only answer leaves total,
\* correct, streak, feedback and the current question unchanged.
C13_BlankNotScored ==
    [][(trim(answer) = <<>> /\ CheckStep)
          => UNCHANGED <<total, correct, streak, feedback, question>>]_vars

C13_Witness ==
    /\ answer = <<"sp">> /\ feedback = Null /\ ~effectPending
    /\ total = 1 /\ streak = 1 /\ ENABLED ClickCheck

\* the register and the label of the form of the current question
C14_Register == formRegister[question.form]

C14_Label == formLabels[question.form]

\* C14: for a form with a register the label the page shows
\* (displayConjugationType of the question's form) is the register with its
\* first letter in upper case, a space, and the form's label with its first
\* letter in lower case ("Formal present (...)"); for a form without
\* register (te, adverb) it is the form's label as it is.
C14_DisplayLabel ==
    /\ DOMAIN formRegister = FormKey \ {"te", "adverb"}
    /\ IF question.form \in {"te", "adverb"} THEN conjugationTypeLabel = C14_Label
       ELSE /\ Len(conjugationTypeLabel) = Len(C14_Register) + 1 + Len(C14_Label)
            /\ conjugationTypeLabel[1] = UpperOf[C14_Register[1]]
            /\ \A i \in 2..Len(C14_Register) : conjugationTypeLabel[i] = C14_Register[i]
            /\ conjugationTypeLabel[Len(C14_Register) + 1] = "sp"
            /\ conjugationTypeLabel[Len(C14_Register) + 2] \in DOMAIN UpperOf
            /\ UpperOf[conjugationTypeLabel[Len(C14_Register) + 2]] = C14_Label[1]
            /\ \A i \in 2..Len(C14_Label) :
                  conjugationTypeLabel[Len(C14_Register) + 1 + i] = C14_Label[i]
            /\ question.form = "present" =>
                  SubSeq(conjugationTypeLabel, 1, 14) =
                      <<"lat_F", "lat_o", "lat_r", "lat_m", "lat_a", "lat_l", "sp",
                        "lat_p", "lat_r", "lat_e", "lat_s", "lat_e", "lat_n", "lat_t">>

C14_Witness ==
    /\ question.form = "pastCopula" /\ question.item.meaning = "student"
    /\ SubSeq(conjugationTypeLabel, 1, 18) =
          <<"lat_F", "lat_o", "lat_r", "lat_m", "lat_a", "lat_l", "sp",
            "lat_c", "lat_o", "lat_p", "lat_u", "lat_l", "lat_a", "sp",
            "lat_p", "lat_a", "lat_s", "lat_t">>

\* ------------------------------------------------------------------------
\* Properties of the practice page
\* ------------------------------------------------------------------------

\* C15: between two consecutive replacements of the current question total
\* increases at most once, whatever Check clicks and Enter presses occur.
C15_ScoredOnce == scoredSinceReplace <= 1

C15_Witness ==
    /\ scoredSinceReplace = 1 /\ feedback # Null /\ total = 2
    /\ ENABLED PressEnter

\* C16: 0 <= streak <= correct <= total always; a step that changes total
\* is a scored check and adds exactly 1 to it; if the verdict is correct it
\* adds 1 to correct and to streak, otherwise it sets streak to 0 and leaves
\* correct; a step that leaves total leaves correct and streak.
C16_Counters ==
    /\ [](0 <= streak /\ streak <= correct /\ correct <= total)
    /\ [][/\ total' # total =>
               /\ CheckStep
               /\ total' = total + 1
               /\ feedback' # Null
               /\ IF feedback'.ok
                  THEN correct' = correct + 1 /\ streak' = streak + 1
                  ELSE correct' = correct /\ streak' = 0
          /\ total' = total => (correct' = correct /\ streak' = streak)]_vars

C16_Witness ==
    /\ total = 2 /\ correct = 1 /\ streak = 0 /\ feedback = [ok |-> FALSE]

\* C17: whenever feedback is shown, its verdict is the one of matching the
\* submitted answer against the expected forms of the question displayed.
C17_FeedbackOfCurrentQuestion ==
    feedback # Null =>
        (feedback.ok <=> (\/ judgedInput = toKana(expectedKana)
                          \/ judgedInput = toKana(expectedKanji)))

\* enabledKinds has no kind twice
NoDuplicate(arr) == \A i, j \in DOMAIN arr : arr[i] = arr[j] => i = j

\* C18: enabledKinds is never empty and never holds a kind twice; a click on
\* the button of a disabled kind adds it, on an enabled kind removes it, and
\* on the only enabled kind changes nothing.
C18_EnabledKinds ==
    /\ [](Len(enabledKinds) > 0 /\ NoDuplicate(enabledKinds))
    /\ [][\A k \in ItemKind :
            ClickKind(k) =>
                IF k \notin Members(enabledKinds)
                THEN Members(enabledKinds') = Members(enabledKinds) \cup {k}
                ELSE IF Members(enabledKinds) = {k}
                THEN enabledKinds' = enabledKinds
                ELSE Members(enabledKinds') = Members(enabledKinds) \ {k}]_vars

C18_Witness ==
    /\ enabledKinds = <<"noun">> /\ ~effectPending
    /\ ENABLED ClickKind("noun")

\* C19: once the effect scheduled by a kind toggle has run, the kind of the
\* current question's lexeme is one of the enabled kinds.
C19_QuestionOfEnabledKind ==
    ~effectPending => question.item.kind \in Members(enabledKinds)

C19_Witness ==
    /\ ~effectPending /\ enabledKinds = <<"noun", "na-adjective">>
    /\ question.item.kind = "noun" /\ total = 1 /\ feedback = Null

\* advancing to a new question: Next, Skip, or Enter while feedback is shown
AdvanceStep == ClickNext \/ ClickSkip \/ (feedback # Null /\ PressEnter)

\* C20: advancing sets a sampled question, clears the answer and the
\* feedback, and leaves total, correct and streak; Enter while no feedback
\* is shown checks the answer and keeps the question.
C20_Advance ==
    [][/\ AdvanceStep =>
             /\ question' \in AllQuestions
             /\ question'.item.kind \in Members(enabledKinds)
             /\ answer' = <<>>
             /\ feedback' = Null
             /\ UNCHANGED <<total, correct, streak>>
       /\ (feedback = Null /\ PressEnter) =>
             /\ question' = question
             /\ answer' = answer
             /\ trim(answer) # <<>> => (total' = total + 1 /\ feedback' # Null)]_vars

C20_Witness ==
    /\ total = 1 /\ correct = 1 /\ streak = 1 /\ feedback = Null
    /\ answer = <<>> /\ scoredSinceReplace = 0 /\ ~effectPending

====
